---- MODULE Spec2Model ----
(***************************************************************************)
(* The red-black tree of container/rb.go (RBTree, RBNode), the interval    *)
(* tree built on it (IntervalTree, updateAug, the AfterMove hook of main)  *)
(* and the export of a tree to a writer (RBNode.Dot).                      *)
(*                                                                         *)
(* Nodes are heap cells named 1, 2, ... in allocation order; NIL is the    *)
(* nil pointer.  The node fields are sequences indexed by the node.        *)
(***************************************************************************)
EXTENDS Integers, Sequences, FiniteSets, TLC

\* ------------------------------------------------------------- bounds
MaxKey == 4        \* Spec: Int keys are 1..MaxKey, with any of Values
MaxDeepKey == 6    \* SpecKeys: Int keys are 1..MaxDeepKey, one value
MaxMin == 1        \* SpecIval: interval lower endpoints are 1..MaxMin (main: one)
MaxMax == 4        \* SpecIval: interval upper endpoints are 1..MaxMax
MaxNodes == 4      \* SpecIval: the interval tree is grown to this many nodes
MaxHookIter == 8   \* iterations of the hook's loop that are followed
MaxDotNodes == 3   \* SpecDot: the interval tree is grown to this many nodes
MaxDotMax == 3     \* SpecDot: interval upper endpoints are 1..MaxDotMax
MaxFailAt == 6     \* SpecDot: the writer first fails at one of its first MaxFailAt calls
MaxAugNodes == 4   \* SpecAug: the interval tree is grown to this many nodes
MaxAugMax == 4     \* SpecAug: interval upper endpoints are 1..MaxAugMax

\* ---------------------------------------------------------- constants
NIL == 0
Left == 0
Right == 1
Black == FALSE
Red == TRUE
MinInt == -2147483647   \* math.MinInt, below every endpoint; only compared

VARIABLES
    Root,       \* T.Root
    AfterMove,  \* T.AfterMove: "nil" or "main" (the hook main installs)
    parent,     \* parent[n]   : RBNode.parent
    children,   \* children[n] : RBNode.children, a function on {Left, Right}
    key,        \* key[n]      : RBNode.key
    value,      \* value[n]    : RBNode.value
    color,      \* color[n]    : RBNode.color
    call,       \* the last call made on the tree, its arguments and its result
    trace,      \* what the last call did: rotations, hook calls, loop cases, writes
    shadow,     \* the map the calls so far describe: key -> last value inserted
    panicked    \* a nil dereference ended the program

vars == <<Root, AfterMove, parent, children, key, value, color,
          call, trace, shadow, panicked>>

\* The tree and its nodes as one value, threaded through the operations.
Heap == [Root |-> Root, AfterMove |-> AfterMove, parent |-> parent,
         children |-> children, key |-> key, value |-> value, color |-> color]

NoChildren == [d \in {Left, Right} |-> NIL]

Nodes(h) == 1..Len(h.key)

\* An execution in progress: the heap, the events so far, and whether a nil
\* dereference has aborted it.
Exec(h) == [h |-> h, trace |-> <<>>, panic |-> FALSE, spin |-> FALSE, ret |-> NIL]

Event(ev, a, b, h) == [ev |-> ev, a |-> a, b |-> b, h |-> h]

\* A step that is recorded with the heap as it is then.
Emit(m, ev, a, b) == [m EXCEPT !.trace = Append(@, Event(ev, a, b, m.h))]

\* The case the insert loop takes, recorded with N and P.
Case(m, ev, N, P) == [m EXCEPT !.trace = Append(@, Event(ev, N, P, NIL))]

\* ------------------------------------------------------------- keys
\* Int.Compare
IntCompare(n, o) == IF n < o THEN -1 ELSE IF n = o THEN 0 ELSE 1

\* Interval.Compare
IntervalCompare(ival, oval) ==
    IF ival.Min < oval.Min THEN -1
    ELSE IF ival.Min > oval.Min THEN 1
    ELSE IF ival.Max < oval.Max THEN -1
    ELSE IF ival.Max > oval.Max THEN 1
    ELSE 0

\* K.Compare for the instantiation of the tree at hand: the interval tree is the
\* one whose hook is main's.
Compare(h, a, b) ==
    IF h.AfterMove = "main" THEN IntervalCompare(a, b) ELSE IntCompare(a, b)

\* ------------------------------------------------------------- nodes
\* NewRBNode: a fresh node with the zero colour (Black), no parent, no children.
NewRBNode(h, k, v) ==
    [h EXCEPT !.parent = Append(@, NIL),
              !.children = Append(@, NoChildren),
              !.key = Append(@, k),
              !.value = Append(@, v),
              !.color = Append(@, Black)]

\* ------------------------------------------------------------- Search
RECURSIVE SearchFrom(_, _, _)
\* Search, lines 66-70.
Descend(h, x, k, dir) ==
    IF h.children[x][dir] = NIL THEN [node |-> x, found |-> FALSE, dir |-> dir]
    ELSE SearchFrom(h, h.children[x][dir], k)

\* Search, lines 57-64, c being k.Compare(x.key).
\* (DecideSwapped: Left and Right exchanged.)
DecideSwapped(h, x, k, c) ==
    IF c = 0 THEN [node |-> x, found |-> TRUE, dir |-> 0]
    ELSE Descend(h, x, k, IF c = -1 THEN Right ELSE Left)

Decide(h, x, k, c) ==
    IF c = 0 THEN [node |-> x, found |-> TRUE, dir |-> 0]
    ELSE Descend(h, x, k, IF c = -1 THEN Left ELSE Right)

\* The loop of Search, at node x.
SearchFrom(h, x, k) == Decide(h, x, k, Compare(h, k, h.key[x]))

Search(h, k) ==
    IF h.Root = NIL THEN [node |-> NIL, found |-> FALSE, dir |-> 0]
    ELSE SearchFrom(h, h.Root, k)

\* ------------------------------------------------------------- updateAug
\* updateAug, lines 282-299: the maximum of n's key.Max and its present
\* children's MaxSubtree (an absent child counts as math.MinInt).
ChildAug(h, c) == IF c # NIL THEN h.value[c].MaxSubtree ELSE MinInt

Max3(v0, v1, v2) ==
    IF v2 > (IF v1 > v0 THEN v1 ELSE v0) THEN v2
    ELSE IF v1 > v0 THEN v1 ELSE v0

AugOf(h, n) ==
    Max3(ChildAug(h, h.children[n][Left]), ChildAug(h, h.children[n][Right]),
         h.key[n].Max)

\* IntervalTree.updateAug: recompute n's MaxSubtree and go on with the parent
\* when it changed.
RECURSIVE updateAug(_, _)
\* (SetAugLocal: the call on n.parent left out; SetAugAlways: true returned for
\* every present node.)
SetAugAlways(h, n, max) ==
    IF max # h.value[n].MaxSubtree
    THEN [h |-> updateAug([h EXCEPT !.value[n].MaxSubtree = max], h.parent[n]).h,
          changed |-> TRUE]
    ELSE [h |-> h, changed |-> TRUE]

SetAugLocal(h, n, max) ==
    IF max # h.value[n].MaxSubtree
    THEN [h |-> [h EXCEPT !.value[n].MaxSubtree = max], changed |-> TRUE]
    ELSE [h |-> h, changed |-> FALSE]

SetAug(h, n, max) ==
    IF max # h.value[n].MaxSubtree
    THEN [h |-> updateAug([h EXCEPT !.value[n].MaxSubtree = max], h.parent[n]).h,
          changed |-> TRUE]
    ELSE [h |-> h, changed |-> FALSE]

updateAug(h, n) ==
    IF n = NIL THEN [h |-> h, changed |-> FALSE]
    ELSE SetAug(h, n, AugOf(h, n))

\* The loop of the hook main installs:
\*   for t.updateAug(oldParent) || t.updateAug(node) { }
\* followed for at most fuel iterations.
RECURSIVE HookLoop(_, _, _, _)
HookSecond(r2, oldParent, node, fuel) ==
    IF r2.changed THEN HookLoop(r2.h, oldParent, node, fuel - 1)
    ELSE [h |-> r2.h, done |-> TRUE]

\* (HookFirstAnd: the loop written with && in place of ||.)
HookFirstAnd(r1, oldParent, node, fuel) ==
    IF r1.changed THEN HookSecond(updateAug(r1.h, node), oldParent, node, fuel)
    ELSE [h |-> r1.h, done |-> TRUE]

HookFirst(r1, oldParent, node, fuel) ==
    IF r1.changed THEN HookLoop(r1.h, oldParent, node, fuel - 1)
    ELSE HookSecond(updateAug(r1.h, node), oldParent, node, fuel)

HookLoop(h, oldParent, node, fuel) ==
    IF fuel = 0 THEN [h |-> h, done |-> FALSE]
    ELSE HookFirst(updateAug(h, oldParent), oldParent, node, fuel)

HookReturn(m, r, oldParent, node) ==
    Emit([m EXCEPT !.h = r.h, !.spin = ~r.done], "hookret", oldParent, node)

HookBody(m, oldParent, node) ==
    HookReturn(m, HookLoop(m.h, oldParent, node, MaxHookIter), oldParent, node)

\* T.AfterMove(oldParent, node), for the hook main installs.
CallAfterMove(m, oldParent, node) ==
    HookBody(Emit(m, "hook", oldParent, node), oldParent, node)

\* ------------------------------------------------------------- rotate
\* The slot of G that holds P (rotate, lines 88-93).
\* (GChildLeft: the slot taken to be Left whatever P is.)
GChildLeft(h, G, P) == Left
GChild(h, G, P) == IF P = h.children[G][Right] THEN Right ELSE Left

\* rotate, lines 86-97: S takes P's place under G, or as the root.
\* (RelinkNoParent: S.parent = G left out.)
RelinkNoParent(h, G, P, S) ==
    IF G # NIL THEN [h EXCEPT !.children[G][GChild(h, G, P)] = S]
    ELSE [h EXCEPT !.Root = S]

Relink(h, G, P, S) ==
    IF G # NIL THEN [h EXCEPT !.parent[S] = G, !.children[G][GChild(h, G, P)] = S]
    ELSE [h EXCEPT !.parent[S] = G, !.Root = S]

\* rotate, lines 80-85: C moves from S to P, and P under S.
MoveC(h, P, dir, S, C) ==
    IF C # NIL
    THEN [h EXCEPT !.children[P][1 - dir] = C, !.parent[C] = P,
                   !.children[S][dir] = P, !.parent[P] = S]
    ELSE [h EXCEPT !.children[P][1 - dir] = C,
                   !.children[S][dir] = P, !.parent[P] = S]

RotateAt(h, G, P, dir, S) ==
    Relink(MoveC(h, P, dir, S, h.children[S][dir]), G, P, S)

\* The pointer changes of rotate(P, dir), lines 77-97; S is present.
Rotated(h, P, dir) == RotateAt(h, h.parent[P], P, dir, h.children[P][1 - dir])

\* rotate, lines 99-103.
AfterRotate(m, oldParent, P) ==
    IF m.h.AfterMove # "nil" THEN CallAfterMove(m, oldParent, P) ELSE m

AfterRotateLate(m, P) == AfterRotate(m, m.h.parent[P], P)

\* rotate with oldParent read once the pointers have changed.
rotateLateParent(m, P, dir) ==
    IF m.panic THEN m
    ELSE IF P = NIL \/ m.h.children[P][1 - dir] = NIL
         THEN [Emit(m, "rotate", P, dir) EXCEPT !.panic = TRUE]
    ELSE AfterRotateLate([Emit(m, "rotate", P, dir) EXCEPT !.h = Rotated(m.h, P, dir)], P)

\* RBTree.rotate: P nil or S nil is a nil dereference.
rotate(m, P, dir) ==
    IF m.panic THEN m
    ELSE IF P = NIL \/ m.h.children[P][1 - dir] = NIL
         THEN [Emit(m, "rotate", P, dir) EXCEPT !.panic = TRUE]
    ELSE AfterRotate([Emit(m, "rotate", P, dir) EXCEPT !.h = Rotated(m.h, P, dir)],
                     m.h.parent[P], P)

\* ------------------------------------------------------------- insert
\* RBNode.childDir
childDir(h, N) == IF h.children[h.parent[N]][Right] = N THEN Right ELSE Left

\* insert, line 145: a Red parent that is the root turns Black.
\* (RootParentStaysRed: the recolouring left out.)
RootParentStaysRed(h, P) == h
RecolorRootParent(h, P) == [h EXCEPT !.color[P] = Black]

\* insert, lines 159-160: after the rotation at G.
\* (RecolorOnlyG: P.color = Black left out.)
RecolorOnlyG(h, P, G) == [h EXCEPT !.color[G] = Red]
RecolorRotated(h, P, G) == [h EXCEPT !.color[P] = Black, !.color[G] = Red]

\* insert, lines 164-166: the uncle is Red.
\* (RecolorNoG: G.color = Red left out.)
RecolorNoG(h, P, U, G) == [h EXCEPT !.color[P] = Black, !.color[U] = Black]
RecolorUncleRed(h, P, U, G) ==
    [h EXCEPT !.color[P] = Black, !.color[U] = Black, !.color[G] = Red]

\* insert, lines 159-161, m being the execution after rotate(G, 1-dir).
Finish(m, P, G) ==
    IF m.panic THEN m
    ELSE IF P = NIL THEN [m EXCEPT !.panic = TRUE]
    ELSE [m EXCEPT !.h = RecolorRotated(m.h, P, G)]

\* insert, lines 158-161.
\* (LineNoRotate: the recolouring made without the rotation at G;
\* LineSameDir: G rotated toward dir, the side P is on.)
LineNoRotate(m, P, G, dir) == Finish(m, P, G)
LineSameDir(m, P, G, dir) == Finish(rotate(m, G, dir), P, G)
Line(m, P, G, dir) == Finish(rotate(m, G, 1 - dir), P, G)

\* insert, lines 154-155, m being the execution after rotate(P, dir).
ZigZagged(m, G, dir) ==
    IF m.panic THEN m ELSE Line(m, m.h.children[G][dir], G, dir)

\* insert, lines 152-161 when N is P's child on the side opposite dir.
ZigZag(m, P, G, dir) == ZigZagged(rotate(m, P, dir), G, dir)

RECURSIVE Fixup(_, _, _)
\* insert, lines 167-172: go on with G as N.
Climb(m, G) ==
    IF m.h.parent[G] = NIL THEN Case(m, "AtRoot", G, NIL)
    ELSE Fixup(m, G, m.h.parent[G])

\* insert, lines 164-172.
UncleRed(m, P, U, G) == Climb([m EXCEPT !.h = RecolorUncleRed(m.h, P, U, G)], G)

\* insert, lines 151-172.
\* (FixupCaseSwapped: the zig-zag taken when N is P's child on the side dir.)
FixupCaseSwapped(m, N, P, G, dir, U) ==
    IF U = NIL \/ m.h.color[U] = Black
    THEN IF N = m.h.children[P][dir]
         THEN ZigZag(Case(m, "ZigZag", N, P), P, G, dir)
         ELSE Line(Case(m, "Line", N, P), P, G, dir)
    ELSE UncleRed(Case(m, "URed", N, P), P, U, G)

FixupCase(m, N, P, G, dir, U) ==
    IF U = NIL \/ m.h.color[U] = Black
    THEN IF N = m.h.children[P][1 - dir]
         THEN ZigZag(Case(m, "ZigZag", N, P), P, G, dir)
         ELSE Line(Case(m, "Line", N, P), P, G, dir)
    ELSE UncleRed(Case(m, "URed", N, P), P, U, G)

\* insert, lines 149-150.
FixupUncle(m, N, P, G, dir) == FixupCase(m, N, P, G, dir, m.h.children[G][1 - dir])

\* insert, lines 143-150.
FixupRed(m, N, P, G) ==
    IF G = NIL THEN [Case(m, "GNil", N, P) EXCEPT !.h = RecolorRootParent(m.h, P)]
    ELSE FixupUncle(m, N, P, G, childDir(m.h, P))

\* The loop of RBTree.insert, entered with the current N and P.
Fixup(m, N, P) ==
    IF m.h.color[P] = Black THEN Case(m, "PBlack", N, P)
    ELSE FixupRed(m, N, P, m.h.parent[P])

\* insert, lines 132-137.
Linked(m, N, P, dir) ==
    IF P = NIL THEN Case([m EXCEPT !.h.Root = N], "Empty", N, NIL)
    ELSE Fixup([m EXCEPT !.h.children[P][dir] = N], N, P)

\* RBTree.insert
insert(m, N, P, dir) ==
    Linked([m EXCEPT !.h.color[N] = Red, !.h.children[N] = NoChildren,
                     !.h.parent[N] = P], N, P, dir)

\* Insert, lines 108-110 and 118-120: a new node N under P.
WithRet(m, N) == [m EXCEPT !.ret = N]

InsertNew(m, k, v, P, dir) ==
    WithRet(insert([m EXCEPT !.h = NewRBNode(m.h, k, v)], Len(m.h.key) + 1, P, dir),
            Len(m.h.key) + 1)

\* Insert, lines 115-116: the key is present at P.
\* (FoundAsNew: the node also coloured Red, as a new node is; FoundNoWrite: the
\* value left as it was.)
FoundAsNew(m, P, v) == [m EXCEPT !.h.value[P] = v, !.h.color[P] = Red, !.ret = P]
FoundNoWrite(m, P, v) == [m EXCEPT !.ret = P]
Found(m, P, v) == [m EXCEPT !.h.value[P] = v, !.ret = P]

\* Insert, lines 113-121, s being the result of Search.
InsertAt(m, k, v, s) ==
    IF s.found THEN Found(m, s.node, v) ELSE InsertNew(m, k, v, s.node, s.dir)

Returned(m) == Emit(m, "return", m.ret, NIL)

\* RBTree.Insert; the node it returns is m.ret.
RBInsert(m, k, v) ==
    Returned(IF m.h.Root = NIL THEN InsertNew(m, k, v, NIL, 0)
             ELSE InsertAt(m, k, v, Search(m.h, k)))

\* IntervalTree.Insert, line 271.
\* (AugAtNode: updateAug started at n instead of n.parent.)
AugAtNode(m) ==
    IF m.panic THEN m
    ELSE [m EXCEPT !.h = updateAug(m.h, m.ret).h]

AugParent(m) ==
    IF m.panic THEN m
    ELSE [m EXCEPT !.h = updateAug(m.h, m.h.parent[m.ret]).h]

\* IntervalTree.Insert
IntervalInsert(m, min, max, val) ==
    AugParent(RBInsert(m, [Min |-> min, Max |-> max],
                       [MaxSubtree |-> max, Value |-> val]))

\* ------------------------------------------------------------- Dot
\* The io.Writer handed to Dot: its Write fails at call number w.failAt (never
\* when that is 0), and at every later call too when w.sticky.
Fails(w, i) == w.failAt # 0 /\ (i = w.failAt \/ (w.sticky /\ i > w.failAt))

\* w.Write([]byte(s)): the bytes and whether the call succeeded.  Dot drops the
\* (n, err) the call returns.
Write(m, w, s) ==
    [m EXCEPT !.trace = Append(@, Event("write", s, ~Fails(w, Len(m.trace) + 1), NIL))]

\* p, lines 185-188, and pf, lines 189-192 (fmt.Fprintf makes one Write).
DotP(m, w, s) == Write(Write(m, w, s), w, "\n")

DotPf(m, w, line) == Write(Write(m, w, line), w, "\n")

\* The label of N, lines 202-205; meta is "nil" or main's ("aug = %d").
Label(h, meta, N) ==
    [key |-> h.key[N], value |-> h.value[N],
     meta |-> IF meta # "nil" THEN h.value[N].MaxSubtree ELSE NIL]

\* The line of N, lines 196-206.
NodeLine(h, meta, N) ==
    [f |-> "node", n |-> N, label |-> Label(h, meta, N),
     color |-> IF h.color[N] = Black THEN "black" ELSE "red"]

\* Lines 210, 211 and 214.
NilLine(N, i) == [f |-> "nil", n |-> N, i |-> i]

NilEdge(N, i) == [f |-> "niledge", n |-> N, i |-> i]

EdgeLine(N, child) == [f |-> "edge", n |-> N, child |-> child]

RECURSIVE DotNode(_, _, _, _)
\* The body of the loop over N.children, lines 208-216, for slot i.
\* (DotChildUnlinks: the slot of a child is cleared once the child is written.)
DotChildUnlinks(m, w, meta, N, i) ==
    IF m.h.children[N][i] = NIL
    THEN DotPf(DotPf(m, w, NilLine(N, i)), w, NilEdge(N, i))
    ELSE [DotPf(DotNode(m, w, meta, m.h.children[N][i]), w,
                EdgeLine(N, m.h.children[N][i]))
             EXCEPT !.h.children[N][i] = NIL]

DotChild(m, w, meta, N, i) ==
    IF m.h.children[N][i] = NIL
    THEN DotPf(DotPf(m, w, NilLine(N, i)), w, NilEdge(N, i))
    ELSE DotPf(DotNode(m, w, meta, m.h.children[N][i]), w,
               EdgeLine(N, m.h.children[N][i]))

\* The closure node, lines 195-218.
DotNode(m, w, meta, N) ==
    DotChild(DotChild(DotPf(m, w, NodeLine(m.h, meta, N)), w, meta, N, Left),
             w, meta, N, Right)

\* RBNode.Dot on node N: nothing is returned.
Dot(m, w, meta, N) ==
    DotP(DotNode(DotP(DotP(m, w, "digraph {"), w, "graph [ordering=out];"),
                 w, meta, N),
         w, "}")

\* ------------------------------------------------------------- inputs
DotIntervals == {[Min |-> 1, Max |-> hi] : hi \in 1..MaxDotMax}
Metas == {"nil", "main"}
AugIntervals == {[Min |-> 1, Max |-> hi] : hi \in 1..MaxAugMax}
Values == {1, 2}
Payloads == {1}
IntKeys == 1..MaxKey
DeepKeys == 1..MaxDeepKey
Intervals == {[Min |-> lo, Max |-> hi] : lo \in 1..MaxMin, hi \in 1..MaxMax}

\* ------------------------------------------------------------- actions
\* The tree, the events and the result a finished call leaves.
Store(m, k, v) ==
    /\ Root' = m.h.Root
    /\ AfterMove' = m.h.AfterMove
    /\ parent' = m.h.parent
    /\ children' = m.h.children
    /\ key' = m.h.key
    /\ value' = m.h.value
    /\ color' = m.h.color
    /\ trace' = m.trace
    /\ panicked' = m.panic
    /\ call' = [op |-> "Insert", k |-> k, v |-> v, ret |-> m.ret,
                found |-> FALSE, dir |-> Left, spin |-> m.spin]

Record(k, v) == [x \in DOMAIN shadow \cup {k} |-> IF x = k THEN v ELSE shadow[x]]

\* T.Insert(k, v) on an RBTree[Int, V]
Insert(k, v) ==
    /\ ~panicked
    /\ AfterMove = "nil"
    /\ Store(RBInsert(Exec(Heap), k, v), k, v)
    /\ shadow' = Record(k, v)

\* t.Insert(min, max, value) on an IntervalTree
IvInsert(min, max, val) ==
    /\ ~panicked
    /\ AfterMove = "main"
    /\ \/ Len(key) < MaxNodes
       \/ \E n \in 1..Len(key) : key[n] = [Min |-> min, Max |-> max]
    /\ Store(IntervalInsert(Exec(Heap), min, max, val), [Min |-> min, Max |-> max], val)
    /\ shadow' = Record([Min |-> min, Max |-> max], val)

\* t.Insert(1, max, "") on an IntervalTree grown deeper
DeepInsert(max) ==
    /\ ~panicked
    /\ AfterMove = "main"
    /\ Store(IntervalInsert(Exec(Heap), 1, max, 1), [Min |-> 1, Max |-> max], 1)
    /\ shadow' = Record([Min |-> 1, Max |-> max], 1)

\* T.Search(k)
SearchKey(k) ==
    /\ ~panicked
    /\ call' = [op |-> "Search", k |-> k, v |-> NIL, ret |-> Search(Heap, k).node,
                found |-> Search(Heap, k).found, dir |-> Search(Heap, k).dir,
                spin |-> FALSE]
    /\ trace' = <<>>
    /\ UNCHANGED <<Root, AfterMove, parent, children, key, value, color,
                   shadow, panicked>>

\* A key of the tree's key type that no call was made with.
NoKey == IF AfterMove = "main" THEN [Min |-> NIL, Max |-> NIL] ELSE NIL

\* The tree, the writes and the result a finished Dot leaves.
StoreDot(m) ==
    /\ Root' = m.h.Root
    /\ AfterMove' = m.h.AfterMove
    /\ parent' = m.h.parent
    /\ children' = m.h.children
    /\ key' = m.h.key
    /\ value' = m.h.value
    /\ color' = m.h.color
    /\ trace' = m.trace
    /\ panicked' = m.panic
    /\ call' = [op |-> "Dot", k |-> NoKey, v |-> NIL, ret |-> m.ret,
                found |-> FALSE, dir |-> Left, spin |-> m.spin]
    /\ shadow' = shadow

\* t.Root.Dot(w, meta), as main calls it, on a writer that fails as given
DotRoot(meta, failAt, sticky) ==
    /\ ~panicked
    /\ AfterMove = "main"
    /\ Root # NIL
    /\ StoreDot(Dot(Exec(Heap), [failAt |-> failAt, sticky |-> sticky], meta, Root))

\* t.Insert while the tree has fewer than bound nodes, or with a key present
BoundedInsert(bound, min, max, val) ==
    /\ \/ Len(key) < bound
       \/ \E n \in 1..Len(key) : key[n] = [Min |-> min, Max |-> max]
    /\ IvInsert(min, max, val)

\* The tree and the result a finished updateAug(n) leaves: call.ret is n and
\* call.found the boolean returned.
StoreAug(r, n) ==
    /\ Root' = r.h.Root
    /\ AfterMove' = r.h.AfterMove
    /\ parent' = r.h.parent
    /\ children' = r.h.children
    /\ key' = r.h.key
    /\ value' = r.h.value
    /\ color' = r.h.color
    /\ trace' = <<>>
    /\ call' = [op |-> "updateAug", k |-> NoKey, v |-> NIL, ret |-> n,
                found |-> r.changed, dir |-> Left, spin |-> FALSE]
    /\ UNCHANGED <<shadow, panicked>>

\* t.updateAug(n), n a node of the tree or nil
UpdateAugCall(n) ==
    /\ ~panicked
    /\ AfterMove = "main"
    /\ n \in 0..Len(key)
    /\ StoreAug(updateAug(Heap, n), n)

Empty(hook) ==
    /\ Root = NIL
    /\ AfterMove = hook
    /\ parent = <<>>
    /\ children = <<>>
    /\ key = <<>>
    /\ value = <<>>
    /\ color = <<>>
    /\ call = [op |-> "new", k |-> IF hook = "main" THEN [Min |-> NIL, Max |-> NIL] ELSE NIL,
               v |-> NIL, ret |-> NIL, found |-> FALSE, dir |-> Left, spin |-> FALSE]
    /\ trace = <<>>
    /\ shadow = <<>>
    /\ panicked = FALSE

\* var T RBTree[Int, V]
Init == Empty("nil")

\* var t IntervalTree; t.AfterMove = func(oldParent, node) { ... }
InitIval == Empty("main")

Next ==
    \/ \E k \in IntKeys, v \in Values : Insert(k, v)
    \/ \E k \in IntKeys : SearchKey(k)

NextKeys == \E k \in DeepKeys : Insert(k, 1)

NextIval == \E iv \in Intervals, p \in Payloads : IvInsert(iv.Min, iv.Max, p)

\* The classic interval-tree example, in the order it is inserted.
Classic ==
    << [Min |-> 0, Max |-> 3], [Min |-> 5, Max |-> 8], [Min |-> 6, Max |-> 10],
       [Min |-> 8, Max |-> 9], [Min |-> 15, Max |-> 23], [Min |-> 16, Max |-> 21],
       [Min |-> 17, Max |-> 19], [Min |-> 19, Max |-> 20], [Min |-> 25, Max |-> 30],
       [Min |-> 26, Max |-> 26] >>

\* t.Insert(min, max, value) with the next interval of the example
ClassicInsert(val) ==
    /\ ~panicked
    /\ AfterMove = "main"
    /\ Len(key) < Len(Classic)
    /\ Store(IntervalInsert(Exec(Heap), Classic[Len(key) + 1].Min,
                            Classic[Len(key) + 1].Max, val),
             Classic[Len(key) + 1], val)
    /\ shadow' = Record(Classic[Len(key) + 1], val)

NextClassic == \E p \in Values : ClassicInsert(p)

NextDot ==
    \/ \E iv \in DotIntervals, p \in Payloads : BoundedInsert(MaxDotNodes, iv.Min, iv.Max, p)
    \/ \E meta \in Metas, failAt \in 0..MaxFailAt, sticky \in BOOLEAN :
          DotRoot(meta, failAt, sticky)

NextAug ==
    \/ \E iv \in AugIntervals, p \in Payloads : BoundedInsert(MaxAugNodes, iv.Min, iv.Max, p)
    \/ \E n \in 0..MaxAugNodes : UpdateAugCall(n)

NextDeep == \E hi \in DeepKeys : DeepInsert(hi)

Spec == Init /\ [][Next]_vars

\* The interval tree grown deeper, with one lower endpoint and one payload.
SpecDeep == InitIval /\ [][NextDeep]_vars

\* The interval tree with updateAug called on any node between the Inserts.
SpecAug == InitIval /\ [][NextAug]_vars

\* The interval tree and its export.
SpecDot == InitIval /\ [][NextDot]_vars

\* The interval tree filled with the classic example.
SpecClassic == InitIval /\ [][NextClassic]_vars

\* The same tree grown deeper, with one value.
SpecKeys == Init /\ [][NextKeys]_vars

SpecIval == InitIval /\ [][NextIval]_vars

\* ============================================================= properties
\* The nodes of the subtree at n, following child links at most d deep.
RECURSIVE SubD(_, _, _)
SubD(h, n, d) ==
    IF n = NIL \/ d = 0 THEN {}
    ELSE {n} \cup SubD(h, h.children[n][Left], d - 1)
             \cup SubD(h, h.children[n][Right], d - 1)

Sub(h, n) == SubD(h, n, Len(h.key) + 1)

Reach(h) == Sub(h, h.Root)

\* The events of the last call that name a case of the insert loop.
Cases == {"Empty", "PBlack", "GNil", "URed", "AtRoot", "Line", "ZigZag"}

EventsOf(evs) == {i \in 1..Len(trace) : trace[i].ev \in evs}

Happened(ev) == EventsOf({ev}) # {}

\* The last call was an Insert that created a node.
Inserted == call.op = "Insert" /\ EventsOf(Cases) # {}

\* ------------------------------------------------------------- C1
BSTOrdered(h) ==
    \A n \in Reach(h) :
        /\ \A x \in Sub(h, h.children[n][Left]) : Compare(h, h.key[x], h.key[n]) = -1
        /\ \A x \in Sub(h, h.children[n][Right]) : Compare(h, h.key[x], h.key[n]) = 1

\* C1: after every Insert, every key in a node's left subtree compares less than
\* the node's key and every key in its right subtree compares greater.
C1_BSTOrdering == BSTOrdered(Heap)

C1_Witness ==
    /\ Inserted
    /\ Happened("ZigZag")
    /\ Root # Len(key)
    /\ Cardinality(Reach(Heap)) >= 5

RedChild(h, n) ==
    \E d \in {Left, Right} : h.children[n][d] # NIL /\ h.color[h.children[n][d]] = Red

C4_NoRedRed ==
    \A n \in Reach(Heap) : color[n] = Red => ~RedChild(Heap, n)

C4_Witness ==
    /\ Inserted
    /\ Happened("Line")
    /\ \E n \in Reach(Heap) : color[n] = Red /\ parent[n] # NIL
    /\ Cardinality(Reach(Heap)) >= 5

\* ------------------------------------------------------------- C5
\* The number of Black nodes on every path from n down to an absent child, or
\* -1 when two such paths differ.
RECURSIVE BlackHeight(_, _, _)
BlackHeight(h, n, d) ==
    IF n = NIL THEN 0
    ELSE IF d = 0 THEN -1
    ELSE LET l == BlackHeight(h, h.children[n][Left], d - 1)
             r == BlackHeight(h, h.children[n][Right], d - 1)
         IN IF l = -1 \/ r = -1 \/ l # r THEN -1
            ELSE l + (IF h.color[n] = Black THEN 1 ELSE 0)

\* C5: after every Insert, all paths from a node down to an absent child hold
\* the same number of Black nodes.
C5_BlackHeight == BlackHeight(Heap, Root, Len(key) + 1) # -1

C5_Witness ==
    /\ Inserted
    /\ call.k = 5
    /\ \A n \in 1..5 : key[n] = n
    /\ Len(key) = 5
    /\ BlackHeight(Heap, Root, 6) = 1
    /\ BlackHeight(Heap, children[Root][Right], 5) = 1

\* ------------------------------------------------------------- C3
AugConsistent(h, n) == h.value[n].MaxSubtree = AugOf(h, n)

\* C3: after every IntervalTree.Insert every node of the tree has MaxSubtree equal
\* to the maximum of its own key.Max and its present children's MaxSubtree.
C3_AugEverywhere == \A n \in Reach(Heap) : AugConsistent(Heap, n)

\* The same with every key inserted once only.
C3_AugDistinctKeys ==
    (call.op = "Insert" /\ Len(key) = Cardinality(DOMAIN shadow) /\ Inserted)
        => \A n \in Reach(Heap) : AugConsistent(Heap, n)

\* ------------------------------------------------------------- C6
\* The tree after the last Insert is made once more with the same arguments.
Again ==
    IF AfterMove = "main"
    THEN IntervalInsert(Exec(Heap), call.k.Min, call.k.Max, call.v).h
    ELSE RBInsert(Exec(Heap), call.k, call.v).h

\* C6: making the same Insert a second time leaves exactly the tree the first
\* one left (shape, colours, keys, values, MaxSubtree).
C6_Idempotent == call.op = "Insert" => Again = Heap

\* ------------------------------------------------------------- C7
\* The value RBTree.Insert is handed by the last call.
Handed(c) ==
    IF AfterMove = "main" THEN [MaxSubtree |-> c.k.Max, Value |-> c.v] ELSE c.v

\* What an Insert of a key held by node n does, from the state before it to the
\* return of RBTree.Insert: one event (the return), node n returned, and a heap
\* that differs in n's value alone.
OverwritesOnly(n) ==
    /\ Len(trace') = 1
    /\ trace'[1].ev = "return"
    /\ trace'[1].a = n
    /\ call'.ret = n
    /\ trace'[1].h = [Heap EXCEPT !.value[n] = Handed(call')]
    /\ <<Root', parent', children', color', key'>> = <<Root, parent, children, color, key>>

\* C7: Insert(k, v) with k present overwrites the value of the node holding k and
\* returns that node; no node is created, nothing is rotated, no colour or link
\* changes, and the hook is not invoked.
C7_PresentKeyFrame ==
    [][\A n \in Reach(Heap) :
          (call'.op = "Insert" /\ key[n] = call'.k) => OverwritesOnly(n)]_vars

C7_Witness ==
    /\ call.op = "Insert"
    /\ Len(trace) = 1
    /\ Len(key) >= 3
    /\ children[call.ret] # NoChildren
    /\ ~AugConsistent(Heap, call.ret)

\* ------------------------------------------------------------- C8
\* C8: Search finds exactly the keys inserted, each with the value of its last
\* Insert; the tree holds one node per key inserted; the node an Insert returns
\* is the one Search finds for its key.
C8_Map ==
    /\ \A k \in IntKeys :
          /\ Search(Heap, k).found <=> k \in DOMAIN shadow
          /\ Search(Heap, k).found =>
                /\ key[Search(Heap, k).node] = k
                /\ value[Search(Heap, k).node] = shadow[k]
    /\ Cardinality(Reach(Heap)) = Cardinality(DOMAIN shadow)
    /\ Len(key) = Cardinality(DOMAIN shadow)
    /\ call.op = "Insert" =>
          /\ Search(Heap, call.k).found
          /\ Search(Heap, call.k).node = call.ret

C8_Witness ==
    /\ call.op = "Insert"
    /\ Len(trace) = 1
    /\ Cardinality(DOMAIN shadow) = MaxKey
    /\ shadow[call.k] = 2
    /\ \E k \in DOMAIN shadow : shadow[k] = 1
    /\ call.ret # Root

\* ------------------------------------------------------------- C9
Rotations == EventsOf({"rotate"})
Hooks == EventsOf({"hook"})

\* The pointers rotate(P, dir) is to have changed, from heap h0 to heap h1.
RotationDone(h0, h1, P, dir, G, S, C) ==
    /\ h1.parent[P] = S
    /\ h1.children[S][dir] = P
    /\ h1.children[P][1 - dir] = C
    /\ C # NIL => h1.parent[C] = P
    /\ h1.parent[S] = G
    /\ G = NIL => h1.Root = S
    /\ G # NIL => \E d \in {Left, Right} : h0.children[G][d] = P /\ h1.children[G][d] = S

\* Event i is a rotation and event i+1 the hook's invocation for it.
HookFollows(i) ==
    /\ i + 1 <= Len(trace)
    /\ trace[i + 1].ev = "hook"
    /\ trace[i + 1].b = trace[i].a
    /\ trace[i + 1].a = trace[i].h.parent[trace[i].a]
    /\ RotationDone(trace[i].h, trace[i + 1].h, trace[i].a, trace[i].b,
                    trace[i].h.parent[trace[i].a],
                    trace[i].h.children[trace[i].a][1 - trace[i].b],
                    trace[i].h.children[trace[i].h.children[trace[i].a][1 - trace[i].b]][trace[i].b])

\* The case of the insert loop that event i belongs to.
CaseOf(i) ==
    trace[CHOOSE c \in EventsOf(Cases) :
             c < i /\ \A d \in EventsOf(Cases) : d < i => d <= c].ev

Attach(h, p, dir, k) ==
    [NewRBNode(h, k, NIL) EXCEPT !.children[p][dir] = Len(h.key) + 1,
                                 !.parent[Len(h.key) + 1] = p]

\* What Search(k) is to return on heap h; r is the call with its results.
SearchResultOK(h, k, r) ==
    IF h.Root = NIL THEN r.node = NIL /\ ~r.found /\ r.dir = Left
    ELSE IF \E n \in Reach(h) : h.key[n] = k
    THEN r.found /\ r.node \in Reach(h) /\ h.key[r.node] = k
    ELSE /\ ~r.found
         /\ r.node \in Reach(h)
         /\ h.children[r.node][r.dir] = NIL
         /\ r.dir = Left <=> Compare(h, k, h.key[r.node]) = -1
         /\ BSTOrdered(Attach(h, r.node, r.dir, k))

\* C10: Search(k) leaves the tree as it is and returns (nil, false, Left) on an
\* empty tree, the node holding k when k is present, and otherwise the node and
\* the absent slot where a node with key k keeps the tree ordered.
C10_Search ==
    [][call'.op = "Search" =>
          /\ Heap' = Heap
          /\ SearchResultOK(Heap, call'.k,
                            [node |-> call'.ret, found |-> call'.found,
                             dir |-> call'.dir])]_vars

C10_Witness ==
    /\ call.op = "Search"
    /\ ~call.found
    /\ call.dir = Right
    /\ call.ret # Root
    /\ Len(key) >= 3

\* ------------------------------------------------------------- C11
\* The number of nodes on the longest path from n down to an absent child.
RECURSIVE Height(_, _, _)
HeightOf(h, n, l, r) == 1 + (IF l > r THEN l ELSE r)

Height(h, n, d) ==
    IF n = NIL \/ d = 0 THEN 0
    ELSE HeightOf(h, n, Height(h, h.children[n][Left], d - 1),
                        Height(h, h.children[n][Right], d - 1))

RECURSIVE Pow2(_)
Pow2(e) == IF e = 0 THEN 1 ELSE 2 * Pow2(e - 1)

TreeHeight == Height(Heap, Root, Len(key) + 1)

MiddleRoot(l, r) ==
    /\ Root = 2
    /\ parent[2] = NIL
    /\ color[2] = Black
    /\ children[2][Left] = l /\ parent[l] = 2
    /\ children[2][Right] = r /\ parent[r] = 2
    /\ color[l] = Red /\ color[r] = Red
    /\ children[l] = NoChildren /\ children[r] = NoChildren

\* The last call rotated once: the first node inserted, toward dir.
OneRotation(dir) ==
    /\ Cardinality(Rotations) = 1
    /\ \A i \in Rotations : trace[i].a = 1 /\ trace[i].b = dir

\* C13: the keys 1, 2, 3 inserted in this order, and in the order 3, 2, 1, give
\* a tree whose root holds 2 and is Black, with 1 and 3 as its left and right
\* children, Red and leaves; the third Insert makes one rotation, to the Left
\* in the first case and to the Right in the second.
C13_ThreeKeys ==
    /\ key = <<1, 2, 3>> =>
          /\ MiddleRoot(1, 3)
          /\ Inserted => OneRotation(Left)
    /\ key = <<3, 2, 1>> =>
          /\ MiddleRoot(3, 1)
          /\ Inserted => OneRotation(Right)

C13_Witness ==
    /\ key = <<3, 2, 1>>
    /\ Inserted
    /\ call.k = 1
    /\ Happened("Line")
    /\ \E i \in Rotations : trace[i].b = Right

\* ------------------------------------------------------------- C12
\* The nodes from n up to the root, following parent links at most d times.
RECURSIVE ChainD(_, _, _)
ChainD(h, n, d) ==
    IF n = NIL \/ d = 0 THEN {} ELSE {n} \cup ChainD(h, h.parent[n], d - 1)

Chain(h, n) == ChainD(h, n, Len(h.key) + 1)

Filled == Len(key) = Len(Classic)

\* C12: with the ten intervals of the example inserted in order, the root has
\* MaxSubtree 30 and the node holding [17,19] and each of its ancestors has
\* MaxSubtree equal to the maximum of its key.Max and its children's MaxSubtree.
C12_Classic ==
    Filled =>
        /\ value[Root].MaxSubtree = 30
        /\ \A n \in Nodes(Heap) :
              key[n] = [Min |-> 17, Max |-> 19] =>
                  \A a \in Chain(Heap, n) : AugConsistent(Heap, a)

C12_Witness ==
    /\ Filled
    /\ Inserted
    /\ key[7] = [Min |-> 17, Max |-> 19]
    /\ Chain(Heap, 7) = {7, 8, 6, 4}
    /\ value[Root].MaxSubtree = 30
    /\ value[8].MaxSubtree = 30
    /\ key[Root].Max = 9

\* ------------------------------------------------------------- C14
WriteEvents == EventsOf({"write"})

FailedWrites == {i \in WriteEvents : ~trace[i].b}

\* C14: when a write to the sink fails during Dot, the caller of Dot gets the
\* failure as an error outcome, and no write is attempted after the failed one.
C14_WriteErrorPropagated ==
    (call.op = "Dot" /\ FailedWrites # {}) =>
        /\ call.ret # NIL \/ panicked
        /\ \A i \in FailedWrites : \A j \in WriteEvents : j <= i

\* ------------------------------------------------------------- C15
\* C15: Dot leaves the tree as it is, whether or not writes to the sink fail:
\* the root, and every node's key, value, colour, children and parent.
C15_DotFrame ==
    [][call'.op = "Dot" => Heap' = Heap]_vars

C15_Witness ==
    /\ call.op = "Dot"
    /\ Len(key) = 3
    /\ FailedWrites = {5}
    /\ Cardinality(WriteEvents) = 32
    /\ trace[5].a.n = Root
    /\ trace[5].a.label.meta = value[Root].MaxSubtree
    /\ trace[5].a.color = "black"

\* ------------------------------------------------------------- C16
HookReturns == EventsOf({"hookret"})

\* Node n of heap h is where updateAug leaves a node: a further updateAug(n)
\* reports no change.
Settled(h, n) == AugConsistent(h, n) /\ ~updateAug(h, n).changed

\* C16: when the hook returns after a rotation, oldParent (if present) and node
\* both have MaxSubtree equal to the maximum of their key.Max and their present
\* children's MaxSubtree, and a further updateAug on either reports no change.
C16_HookFixedPoint ==
    (call.op = "Insert" /\ ~call.spin) =>
        \A i \in HookReturns :
            /\ trace[i].a # NIL => Settled(trace[i].h, trace[i].a)
            /\ Settled(trace[i].h, trace[i].b)

\* The hook call at event i changed the MaxSubtree of node n.
HookChanged(i, n) ==
    /\ trace[i - 1].ev = "hook"
    /\ trace[i].h.value[n] # trace[i - 1].h.value[n]

\* A hook call with oldParent present that changed the MaxSubtree of oldParent
\* and of node.
C16_Witness ==
    /\ call.op = "Insert"
    /\ ~call.spin
    /\ \E i \in HookReturns :
          /\ trace[i].a # NIL
          /\ HookChanged(i, trace[i].a)
          /\ HookChanged(i, trace[i].b)

\* ------------------------------------------------------------- C17
\* The same tree but for MaxSubtree fields of n and its ancestors.
AugFrame(h0, h1, n) ==
    /\ h1.Root = h0.Root /\ h1.AfterMove = h0.AfterMove
    /\ h1.parent = h0.parent /\ h1.children = h0.children
    /\ h1.key = h0.key /\ h1.color = h0.color
    /\ \A x \in Nodes(h0) :
          /\ h1.value[x].Value = h0.value[x].Value
          /\ x \notin Chain(h0, n) => h1.value[x] = h0.value[x]

\* What updateAug(n) is to do from heap h0 to heap h1, returning changed.
UpdateAugOK(h0, h1, n, changed) ==
    /\ AugFrame(h0, h1, n)
    /\ n = NIL => ~changed /\ h1 = h0
    /\ n # NIL =>
         IF AugOf(h0, n) = h0.value[n].MaxSubtree
         THEN ~changed /\ h1 = h0
         ELSE /\ changed
              /\ h1.value[n].MaxSubtree = AugOf(h0, n)
              /\ h0.parent[n] # NIL => AugConsistent(h1, h0.parent[n])
              /\ \A c \in Chain(h0, n) :
                    (h0.parent[c] # NIL
                       /\ h1.value[h0.parent[c]] # h0.value[h0.parent[c]])
                    => h1.value[c] # h0.value[c]

\* C17: updateAug(nil) returns false and changes nothing; updateAug(n) on a node
\* whose recomputed maximum equals its MaxSubtree returns false and changes no
\* node; otherwise it sets n's MaxSubtree to the recomputed maximum, goes on with
\* n.parent and returns true.  Keys, colours, payloads and links stay, and only
\* MaxSubtree of n and of its ancestors can change.
C17_UpdateAug ==
    [][call'.op = "updateAug" =>
          UpdateAugOK(Heap, Heap', call'.ret, call'.found)]_vars

C17_Witness ==
    /\ call.op = "updateAug"
    /\ call.found
    /\ parent[call.ret] # NIL
    /\ AugConsistent(Heap, call.ret)
    /\ AugConsistent(Heap, parent[call.ret])

\* ------------------------------------------------------------- C18
\* The number of nodes from n up to the root, or -1 when the parent links from
\* n do not end.
RECURSIVE DepthD(_, _, _)
DepthNext(r) == IF r = -1 THEN -1 ELSE r + 1

DepthD(h, n, d) ==
    IF n = NIL THEN 0
    ELSE IF d = 0 THEN -1
    ELSE DepthNext(DepthD(h, h.parent[n], d - 1))

Depth(h, n) == DepthD(h, n, Len(h.key) + 1)

CaseEvents == EventsOf(Cases)

FirstRotation == CHOOSE i \in Rotations : \A j \in Rotations : i <= j

\* The heap while the insert loop runs: the loop changes no link before the
\* first rotation, and makes none in its last iteration only.
LoopHeap == IF Rotations # {} THEN trace[FirstRotation].h ELSE Heap

\* Each iteration of the insert loop stops, or goes on two levels up.
LoopClimbs(h) ==
    \A i \in CaseEvents :
        IF trace[i].ev = "URed"
        THEN /\ i + 1 \in CaseEvents
             /\ trace[i + 1].a = h.parent[h.parent[trace[i].a]]
             /\ Depth(h, trace[i + 1].a) = Depth(h, trace[i].a) - 2
             /\ Depth(h, trace[i + 1].a) >= 1
        ELSE i + 1 \notin CaseEvents

\* The heaps updateAug is started on: at each call of the hook and at the
\* return of RBTree.Insert.
AugHeaps == {trace[i].h : i \in EventsOf({"hook", "return"})}

\* C18: every IntervalTree.Insert terminates: each iteration of the insert loop
\* stops or moves N two levels toward the root, the parent links updateAug
\* follows end at the root, and each run of the hook's loop ends (within
\* MaxHookIter iterations) with both calls reporting no change.
C18_InsertTerminates ==
    call.op = "Insert" =>
        /\ ~call.spin
        /\ ~panicked
        /\ Inserted => LoopClimbs(LoopHeap)
        /\ \A h \in AugHeaps : \A n \in Nodes(h) : Depth(h, n) >= 1
        /\ \A i \in Hooks : i + 1 \in HookReturns

\* An Insert whose hook ran twice and changed MaxSubtree both times.
C18_Witness ==
    /\ call.op = "Insert"
    /\ ~call.spin
    /\ Cardinality(HookReturns) = 2
    /\ \A i \in HookReturns : trace[i].h.value # trace[i - 1].h.value

\* ------------------------------------------------------------- C19
\* The slots of node x that hold node c.
SlotsOf(h, x, c) == {d \in {Left, Right} : h.children[x][d] = c}

LinksOK(h) ==
    /\ h.Root = NIL => Nodes(h) = {}
    /\ h.Root # NIL => h.Root \in Nodes(h) /\ h.parent[h.Root] = NIL
    /\ \A x \in Nodes(h) : \A d \in {Left, Right} :
          h.children[x][d] # NIL =>
              /\ h.children[x][d] \in Nodes(h)
              /\ h.parent[h.children[x][d]] = x
    /\ \A n \in Nodes(h) :
          n # h.Root =>
              /\ h.parent[n] \in Nodes(h)
              /\ Cardinality(SlotsOf(h, h.parent[n], n)) = 1
    /\ Reach(h) = Nodes(h)
    /\ \A n \in Nodes(h) : Depth(h, n) >= 1

\* C19: after every Insert, and at every call of the hook within an Insert, the
\* root has no parent, every child of a node has that node as its parent, every
\* other node is in exactly one slot of its parent, and the links form one tree
\* that holds every node, without a cycle.
C19_LinksConsistent ==
    /\ LinksOK(Heap)
    /\ \A i \in Hooks : LinksOK(trace[i].h)

\* A zig-zag below a present grandparent's parent: both rotations relink a node
\* under a present oldParent, and the hook is called after each.
C19_Witness ==
    /\ call.op = "Insert"
    /\ Happened("ZigZag")
    /\ Len(key) >= 5
    /\ Cardinality(Hooks) = 2
    /\ \A i \in Hooks :
          /\ trace[i].a # NIL
          /\ trace[i].h.parent[trace[i].b] = Len(key)
          /\ trace[i].h.parent[Len(key)] # NIL

\* ------------------------------------------------------------- C20
\* The cases of the insert loop reached after P.childDir().
DirCases == EventsOf({"URed", "Line", "ZigZag"})

\* C20: no Insert ends in a nil dereference: every rotate(P, dir) is called on a
\* present P whose child on the side opposite dir is present, and childDir is
\* called on a node whose parent is present.
C20_NoNilDeref ==
    /\ ~panicked
    /\ call.op = "Insert" =>
          \A i \in Rotations :
              /\ trace[i].a # NIL
              /\ trace[i].h.children[trace[i].a][1 - trace[i].b] # NIL
    /\ Inserted =>
          \A i \in DirCases :
              /\ trace[i].b # NIL
              /\ LoopHeap.parent[trace[i].b] # NIL

C20_Witness ==
    /\ Inserted
    /\ Happened("ZigZag")
    /\ Cardinality(Rotations) = 2
    /\ Len(key) = 6
    /\ \A i \in Rotations : trace[i].h.parent[trace[i].a] # NIL

====
